---- MODULE Spec2Model ----
(***************************************************************************)
(* A model of the h annotation API: the annotation views (create, read,    *)
(* update, delete) of h/api/views.py and the search query builder of       *)
(* h/api/search.py.                                                        *)
(*                                                                         *)
(* An annotation is a Python dict: here a function from a finite set of    *)
(* field names to values, so that the presence and the absence of a key    *)
(* are both visible.  A Python string that the code parses (offset, limit) *)
(* is a sequence of one-character strings.                                 *)
(***************************************************************************)
EXTENDS Integers, Sequences, FiniteSets, TLC

VARIABLES
    store,           \* the record store: annotation id -> persisted annotation
    author,          \* history: annotation id -> the principal that created it
    next_id,         \* number of the next id the store assigns
    last,            \* the request being answered: its inputs and its outcome
    contexts,        \* the requests in flight: request -> the annotation traversal loaded
    request_params,  \* search: the request's parameter multidict, a list of pairs
    user_id,         \* search: the authorized user's id (None when anonymous)
    query,           \* search: the query build_query returned (empty before the call)
    heap,            \* search: the Python objects of the call, by reference (1, 2, ...)
    frame,           \* search: the references and the values the call was given
    user_queries,    \* search: the per-user queries handed out: function name -> reference
    given,           \* anonymization: the annotation it was first given
    record,          \* anonymization: the annotation as it is now
    applied,         \* anonymization: the functions applied so far, and what they raised
    exchange,        \* embedded store: the flask request and the response handed to the hook
    after            \* embedded store: what after_request did with them

vars ==
    <<store, author, next_id, last, contexts, request_params, user_id, query, heap, frame,
      user_queries, given, record, applied, exchange, after>>

anonymize_vars == <<given, record, applied>>

hook_vars == <<exchange, after>>

search_vars == <<request_params, user_id, query, heap, frame, user_queries>>

-----------------------------------------------------------------------------
(* Bounds of the model.                                                    *)

\* how many annotations the store assigns an id to in one behaviour
MaxAnnotations == 1

\* how many key/value pairs a search request carries
MaxParams == 2

-----------------------------------------------------------------------------
(* Python dict operations on annotations and payloads.                     *)

EmptyDict == [k \in {} |-> TRUE]

Has(d, k) == k \in DOMAIN d

\* d.get(k, default)
Get(d, k, default) == IF k \in DOMAIN d THEN d[k] ELSE default

\* d[k] = v
Put(d, k, v) == [x \in DOMAIN d \cup {k} |-> IF x = k THEN v ELSE d[x]]

\* d.pop(k, None), keeping the dict
Pop(d, k) == [x \in DOMAIN d \ {k} |-> d[x]]

\* d.update(e)
DictUpdate(d, e) == [x \in DOMAIN d \cup DOMAIN e |-> IF x \in DOMAIN e THEN e[x] ELSE d[x]]

Range(s) == {s[i] : i \in DOMAIN s}

\* [x for x in s if x != v]
RECURSIVE Without(_, _)
Without(s, v) ==
    IF s = <<>> THEN <<>>
    ELSE IF Head(s) = v THEN Without(Tail(s), v)
         ELSE <<Head(s)>> \o Without(Tail(s), v)

-----------------------------------------------------------------------------
(* The principals, and the values a client can send.                       *)

Users == {"alice", "bob"}

\* user.consumer.key of each principal
ConsumerKey(user) == IF user = "alice" THEN "key-a" ELSE "key-b"

\* ids: the store's own, and one only a client would choose
ServerId(n) == <<"es", n>>
ClientId == <<"client", 1>>

ServerTime == "t-server"

Perm1 == [read |-> <<"alice", "bob">>]
Perm2 == [read |-> <<"bob">>, admin |-> <<"bob", "alice">>]
PayloadPermissions == {Perm1, Perm2}

\* the part of a payload made of ordinary fields
CoreFields ==
    { DictUpdate(DictUpdate(DictUpdate(t, d), n), p) :
        t \in {EmptyDict, [text |-> "hello"]},
        d \in {EmptyDict, [deleted |-> TRUE]},
        n \in {EmptyDict, [not_in_public_site_areas |-> TRUE]},
        p \in {EmptyDict} \cup {[permissions |-> x] : x \in PayloadPermissions} }

\* what a client puts under the keys the server owns
AllProtected(id) ==
    [created |-> "t-client", updated |-> "t-client", user |-> "mallory",
     consumer |-> "key-evil", id |-> id]

\* a payload that names one protected key only
SingleProtected(ids) ==
    { [k \in {f} |-> AllProtected(ClientId)[f]] :
        f \in {"created", "updated", "user", "consumer", "id"} }
    \cup {[id |-> i] : i \in ids}

\* the JSON objects a request body can hold, given the ids a client has seen
Payloads(ids) ==
    {DictUpdate(c, p) : c \in CoreFields, p \in {EmptyDict, AllProtected(ClientId)}}
    \cup SingleProtected(ids)

-----------------------------------------------------------------------------
(* The record store (h.api.models.Annotation.save and .delete).            *)

\* annotation.save(): index the document; a document without an id gets the
\* next id and the server's timestamps.
Saved(annotation, n) ==
    IF Has(annotation, "id") THEN annotation
    ELSE DictUpdate(annotation,
             [id |-> ServerId(n), created |-> ServerTime, updated |-> ServerTime])

StorePut(st, annotation) ==
    [i \in DOMAIN st \cup {annotation["id"]} |->
        IF i = annotation["id"] THEN annotation ELSE st[i]]

\* annotation.delete()
StoreDelete(st, id) == [i \in DOMAIN st \ {id} |-> st[i]]

-----------------------------------------------------------------------------
(* h/api/views.py                                                          *)

\* a list that forgets 'user'
PROTECTED_FIELDS_without_user == <<"created", "updated", "consumer", "id">>

PROTECTED_FIELDS == <<"created", "updated", "user", "consumer", "id">>

\* for field in PROTECTED_FIELDS: fields.pop(field, None)
RECURSIVE PopAll(_, _)
PopAll(fields, names) ==
    IF names = <<>> THEN fields
    ELSE PopAll(Pop(fields, Head(names)), Tail(names))

\* nipsa_models.user_read(user_id): the user's row of the suppression list
\* (nipsa_user holds the user ids that have a row), or None
user_read(uid, nipsa_user) == IF uid \in nipsa_user THEN <<uid>> ELSE <<>>

\* _nipsa
nipsa_check(uid, nipsa_user) == IF user_read(uid, nipsa_user) # <<>> THEN TRUE ELSE FALSE

\* an anonymization that empties every identity list
anonymize_deletes_view_clearing(annotation) ==
    IF ~Has(annotation, "user")
    THEN [raised |-> "KeyError", annotation |-> annotation]
    ELSE LET popped == Pop(annotation, "user")
             permissions == Get(popped, "permissions", EmptyDict)
         IN [raised |-> "none",
             annotation |-> IF Has(popped, "permissions")
                            THEN Put(popped, "permissions",
                                     [action \in DOMAIN permissions |-> <<>>])
                            ELSE popped]

\* _anonymize_deletes: annotation.pop('user') raises KeyError without the key
anonymize_deletes_view(annotation) ==
    IF ~Has(annotation, "user")
    THEN [raised |-> "KeyError", annotation |-> annotation]
    ELSE LET user == annotation["user"]
             popped == Pop(annotation, "user")
             permissions == Get(popped, "permissions", EmptyDict)
             filtered == [action \in DOMAIN permissions |->
                             Without(permissions[action], user)]
         IN [raised |-> "none",
             annotation |-> IF Has(popped, "permissions")
                            THEN Put(popped, "permissions", filtered)
                            ELSE popped]

\* _create_annotation, up to the save
create_annotation(fields, user, nipsa_user) ==
    LET stripped == PopAll(fields, PROTECTED_FIELDS)
        a1 == Put(stripped, "user", user)
        a2 == Put(a1, "consumer", ConsumerKey(user))
    IN IF nipsa_check(user, nipsa_user)
       THEN Put(a2, "not_in_public_site_areas", TRUE)
       ELSE a2

\* an update that merges without the permission check
update_annotation_unchecked(annotation, fields, has_admin_permission) ==
    LET merged == DictUpdate(annotation, PopAll(fields, PROTECTED_FIELDS))
    IN IF Get(merged, "deleted", FALSE) = TRUE
       THEN LET anon == anonymize_deletes_view(merged)
            IN [raised |-> anon.raised, status |-> 200, annotation |-> anon.annotation]
       ELSE [raised |-> "none", status |-> 200, annotation |-> merged]

\* an update that keeps, of the stored annotation, the protected fields only
update_annotation_replacing(annotation, fields, has_admin_permission) ==
    LET stripped == PopAll(fields, PROTECTED_FIELDS)
        kept == [f \in DOMAIN annotation \cap Range(PROTECTED_FIELDS) |-> annotation[f]]
        merged == DictUpdate(kept, stripped)
    IN IF Get(merged, "deleted", FALSE) = TRUE
       THEN LET anon == anonymize_deletes_view(merged)
            IN [raised |-> anon.raised, status |-> 200, annotation |-> anon.annotation]
       ELSE [raised |-> "none", status |-> 200, annotation |-> merged]

\* _update_annotation, up to the save:
\* raised is "RuntimeError" (with its status), "KeyError" or "none"
update_annotation(annotation, fields, has_admin_permission) ==
    LET stripped == PopAll(fields, PROTECTED_FIELDS)
        changing_permissions ==
            /\ Has(stripped, "permissions")
            /\ stripped["permissions"] # Get(annotation, "permissions", EmptyDict)
        merged == DictUpdate(annotation, stripped)
    IN IF changing_permissions /\ ~has_admin_permission
       THEN [raised |-> "RuntimeError", status |-> 401, annotation |-> annotation]
       ELSE IF Get(merged, "deleted", FALSE) = TRUE
            THEN LET anon == anonymize_deletes_view(merged)
                 IN [raised |-> anon.raised, status |-> 200,
                     annotation |-> anon.annotation]
            ELSE [raised |-> "none", status |-> 200, annotation |-> merged]

\* _api_error
api_error(reason) == [status |-> "failure", reason |-> reason]

\* AnnotationEvent(request, annotation, action)
AnnotationEvent(annotation, action) == [annotation |-> annotation, action |-> action]

NoCall ==
    [op |-> "none", id |-> ClientId, user |-> "", json_ok |-> TRUE,
     fields |-> EmptyDict, has_admin |-> FALSE, store_ok |-> TRUE,
     nipsa_user |-> {}, before |-> EmptyDict, store_before |-> EmptyDict,
     status |-> 200, raised |-> "none", result |-> EmptyDict,
     effects |-> <<>>, events |-> <<>>]

\* the outcome of the create view: the new store, and what the request saw
create_view(st, n, user, nipsa_user, json_ok, fields, store_ok) ==
    LET annotation == Saved(create_annotation(fields, user, nipsa_user), n)
        call == [NoCall EXCEPT !.op = "create", !.user = user, !.json_ok = json_ok,
                    !.fields = fields, !.store_ok = store_ok,
                    !.nipsa_user = nipsa_user, !.store_before = st]
    IN IF ~json_ok
       THEN [store |-> st,
             last |-> [call EXCEPT !.status = 400,
                          !.result = api_error("No JSON payload sent. Annotation not created.")]]
       ELSE IF ~store_ok
       THEN [store |-> st,
             last |-> [call EXCEPT !.status = 500, !.raised = "StoreError"]]
       ELSE [store |-> StorePut(st, annotation),
             last |-> [call EXCEPT !.id = annotation["id"], !.result = annotation,
                          !.effects = <<"save", "notify">>,
                          !.events = <<AnnotationEvent(annotation, "create")>>]]

\* a read that stores the annotation again and announces an update
read_view_saving(st, context) ==
    LET annotation == Put(context, "updated", "t-read")
    IN [store |-> StorePut(st, annotation),
        last |-> [NoCall EXCEPT !.op = "read", !.id = context["id"], !.before = context,
                     !.store_before = st, !.result = annotation,
                     !.effects = <<"save", "notify">>,
                     !.events = <<AnnotationEvent(annotation, "update")>>]]

\* the outcome of the read view
read_view(st, context) ==
    LET annotation == context
    IN [store |-> st,
        last |-> [NoCall EXCEPT !.op = "read", !.id = context["id"], !.before = annotation,
                     !.store_before = st, !.result = annotation,
                     !.effects = <<"notify">>,
                     !.events = <<AnnotationEvent(annotation, "read")>>]]

\* an update that goes on with a body it could not parse
update_view_unparsed(st, n, context, json_ok, fields, has_admin_permission, store_ok) ==
    LET upd == update_annotation(context, fields, has_admin_permission)
        annotation == Saved(upd.annotation, n)
    IN IF upd.raised # "none" \/ ~store_ok
       THEN [store |-> st,
             last |-> [NoCall EXCEPT !.op = "update", !.id = context["id"],
                          !.json_ok = json_ok, !.fields = fields,
                          !.before = context, !.store_before = st, !.status = 500,
                          !.raised = "StoreError"]]
       ELSE [store |-> StorePut(st, annotation),
             last |-> [NoCall EXCEPT !.op = "update", !.id = context["id"],
                          !.json_ok = json_ok, !.fields = fields,
                          !.has_admin = has_admin_permission,
                          !.before = context, !.store_before = st,
                          !.result = annotation,
                          !.effects = <<"save", "notify">>,
                          !.events = <<AnnotationEvent(annotation, "update")>>]]

\* an update that refuses to write over a version it did not load
update_view_versioned(st, n, context, json_ok, fields, has_admin_permission, store_ok) ==
    LET upd == update_annotation(context, fields, has_admin_permission)
        annotation == Saved(upd.annotation, n)
        fresh == context["id"] \in DOMAIN st /\ st[context["id"]] = context
    IN IF ~json_ok \/ upd.raised # "none" \/ ~store_ok \/ ~fresh
       THEN [store |-> st,
             last |-> [NoCall EXCEPT !.op = "update", !.id = context["id"],
                          !.json_ok = json_ok, !.fields = fields,
                          !.has_admin = has_admin_permission, !.store_ok = store_ok,
                          !.before = context, !.store_before = st, !.status = 409,
                          !.result = api_error("Conflict.")]]
       ELSE [store |-> StorePut(st, annotation),
             last |-> [NoCall EXCEPT !.op = "update", !.id = context["id"],
                          !.json_ok = json_ok, !.fields = fields,
                          !.has_admin = has_admin_permission, !.store_ok = store_ok,
                          !.before = context, !.store_before = st,
                          !.result = annotation,
                          !.effects = <<"save", "notify">>,
                          !.events = <<AnnotationEvent(annotation, "update")>>]]

\* the outcome of the update view
update_view(st, n, context, json_ok, fields, has_admin_permission, store_ok) ==
    LET upd == update_annotation(context, fields, has_admin_permission)
        annotation == Saved(upd.annotation, n)
        call == [NoCall EXCEPT !.op = "update", !.id = context["id"], !.json_ok = json_ok,
                    !.fields = fields, !.has_admin = has_admin_permission,
                    !.store_ok = store_ok, !.before = context, !.store_before = st]
    IN IF ~json_ok
       THEN [store |-> st,
             last |-> [call EXCEPT !.status = 400,
                          !.result = api_error("No JSON payload sent. Annotation not created.")]]
       ELSE IF upd.raised = "RuntimeError"
       THEN [store |-> st,
             last |-> [call EXCEPT !.status = upd.status, !.raised = "RuntimeError",
                          !.result = api_error("Not authorized to change annotation permissions.")]]
       ELSE IF upd.raised = "KeyError"
       THEN [store |-> st,
             last |-> [call EXCEPT !.status = 500, !.raised = "KeyError"]]
       ELSE IF ~store_ok
       THEN [store |-> st,
             last |-> [call EXCEPT !.status = 500, !.raised = "StoreError"]]
       ELSE [store |-> StorePut(st, annotation),
             last |-> [call EXCEPT !.result = annotation,
                          !.effects = <<"save", "notify">>,
                          !.events = <<AnnotationEvent(annotation, "update")>>]]

\* a delete that notifies before it deletes
delete_view_notify_first(st, context, store_ok) ==
    LET annotation == context
        call == [NoCall EXCEPT !.op = "delete", !.id = context["id"], !.store_ok = store_ok,
                    !.before = annotation, !.store_before = st,
                    !.events = <<AnnotationEvent(annotation, "delete")>>]
    IN IF ~store_ok
       THEN [store |-> st,
             last |-> [call EXCEPT !.status = 500, !.raised = "StoreError",
                          !.effects = <<"notify">>]]
       ELSE [store |-> StoreDelete(st, annotation["id"]),
             last |-> [call EXCEPT !.result = [id |-> annotation["id"], deleted |-> TRUE],
                          !.effects = <<"notify", "delete">>]]

\* a delete that returns the removed record and publishes the confirmation
delete_view_swapped(st, context, store_ok) ==
    LET annotation == context
        confirmation == [id |-> annotation["id"], deleted |-> TRUE]
        call == [NoCall EXCEPT !.op = "delete", !.id = context["id"], !.store_ok = store_ok,
                    !.before = annotation, !.store_before = st]
    IN IF ~store_ok
       THEN [store |-> st,
             last |-> [call EXCEPT !.status = 500, !.raised = "StoreError"]]
       ELSE [store |-> StoreDelete(st, annotation["id"]),
             last |-> [call EXCEPT !.result = annotation,
                          !.effects = <<"delete", "notify">>,
                          !.events = <<AnnotationEvent(confirmation, "delete")>>]]

\* the outcome of the delete view
delete_view(st, context, store_ok) ==
    LET annotation == context
        call == [NoCall EXCEPT !.op = "delete", !.id = context["id"], !.store_ok = store_ok,
                    !.before = annotation, !.store_before = st]
    IN IF ~store_ok
       THEN [store |-> st,
             last |-> [call EXCEPT !.status = 500, !.raised = "StoreError"]]
       ELSE [store |-> StoreDelete(st, annotation["id"]),
             last |-> [call EXCEPT !.result = [id |-> annotation["id"], deleted |-> TRUE],
                          !.effects = <<"delete", "notify">>,
                          !.events = <<AnnotationEvent(annotation, "delete")>>]]

-----------------------------------------------------------------------------
(* The requests.  One request is answered at a time: a view runs to its    *)
(* end on the caller's thread, and Respond hands its response back.        *)

Idle == last.op = "none"

\* POST /annotations by one of `users`, with a body drawn from `payloads`
CreateOf(payloads) ==
    /\ Idle
    /\ next_id <= MaxAnnotations
    /\ \E user \in Users, nipsa_user \in SUBSET Users,
          json_ok \in BOOLEAN, store_ok \in BOOLEAN :
         \E fields \in (IF json_ok THEN payloads ELSE {EmptyDict}) :
            LET out == create_view(store, next_id, user, nipsa_user, json_ok,
                                   fields, store_ok)
                made == out.store # store
            IN /\ store' = out.store
               /\ last' = out.last
               /\ next_id' = IF made THEN next_id + 1 ELSE next_id
               /\ author' = IF made THEN Put(author, out.last.id, user) ELSE author
    /\ UNCHANGED <<contexts, search_vars, anonymize_vars, hook_vars>>

\* The sequential service: traversal and view of a request run together.

Create == CreateOf(Payloads(DOMAIN store))

Read ==
    /\ Idle
    /\ \E id \in DOMAIN store :
         LET out == read_view(store, store[id])
         IN /\ store' = out.store
            /\ last' = out.last
    /\ UNCHANGED <<author, next_id, contexts, search_vars, anonymize_vars, hook_vars>>

Update ==
    /\ Idle
    /\ \E id \in DOMAIN store, json_ok \in BOOLEAN,
          has_admin_permission \in BOOLEAN, store_ok \in BOOLEAN :
         \E fields \in (IF json_ok THEN Payloads(DOMAIN store) ELSE {EmptyDict}) :
            LET out == update_view(store, next_id, store[id], json_ok, fields,
                                   has_admin_permission, store_ok)
            IN /\ store' = out.store
               /\ last' = out.last
    /\ UNCHANGED <<author, next_id, contexts, search_vars, anonymize_vars, hook_vars>>

Delete ==
    /\ Idle
    /\ \E id \in DOMAIN store, store_ok \in BOOLEAN :
         LET out == delete_view(store, store[id], store_ok)
         IN /\ store' = out.store
            /\ last' = out.last
    /\ UNCHANGED <<author, next_id, contexts, search_vars, anonymize_vars, hook_vars>>

\* the response goes back to the client and the request ends
Respond ==
    /\ ~Idle
    /\ last' = NoCall
    /\ UNCHANGED <<store, author, next_id, contexts, search_vars, anonymize_vars, hook_vars>>

\* Python's None, where a string is expected
None == "<None>"

\* no response was handed to the hook of the embedded store
NoExchange ==
    [method |-> "", endpoint |-> <<>>, data |-> [json |-> FALSE, value |-> EmptyDict],
     response |-> [status_code |-> 0, headers |-> EmptyDict,
                   data |-> [json |-> FALSE, value |-> EmptyDict]]]

\* the hook has not run
NotRun == [ran |-> FALSE, raised |-> "none", events |-> <<>>, headers |-> EmptyDict]

\* no search call was made
NoSearch ==
    [params_ref |-> 0, params |-> <<>>, local_ref |-> 0,
     query_ref |-> 0, query |-> EmptyDict, result_ref |-> 0]

Init ==
    /\ store = EmptyDict
    /\ author = EmptyDict
    /\ next_id = 1
    /\ last = NoCall
    /\ contexts = EmptyDict
    /\ request_params = <<>>
    /\ user_id = None
    /\ query = None
    /\ heap = <<>>
    /\ frame = NoSearch
    /\ user_queries = EmptyDict
    /\ given = EmptyDict
    /\ record = EmptyDict
    /\ applied = <<>>
    /\ exchange = NoExchange
    /\ after = NotRun

Next ==
    \/ Create
    \/ Read
    \/ Update
    \/ Delete
    \/ Respond

Spec == Init /\ [][Next]_vars

-----------------------------------------------------------------------------
(* The concurrent service: several requests on the same annotation are in  *)
(* flight.  Traversal loads the annotation of a request (its context) from *)
(* the store; the view runs later, on that copy, and the views of other    *)
(* requests may run in between.                                            *)

Requests == {"r1", "r2"}

ConcurrentCreatePayloads == {EmptyDict, [permissions |-> Perm1]}

ConcurrentPayloads ==
    { [text |-> "hello"], [permissions |-> Perm2], [deleted |-> TRUE],
      [text |-> "hello", permissions |-> Perm1] }

CreateOne ==
    /\ next_id = 1
    /\ CreateOf(ConcurrentCreatePayloads)

\* traversal: Annotation.fetch(id) for a request that names an existing annotation
Traverse ==
    /\ \E r \in Requests \ DOMAIN contexts, id \in DOMAIN store :
         contexts' = Put(contexts, r, store[id])
    /\ UNCHANGED <<store, author, next_id, last, search_vars, anonymize_vars, hook_vars>>

UpdateLoaded ==
    /\ Idle
    /\ \E r \in DOMAIN contexts, json_ok \in BOOLEAN,
          has_admin_permission \in BOOLEAN, store_ok \in BOOLEAN :
         \E fields \in (IF json_ok THEN ConcurrentPayloads ELSE {EmptyDict}) :
            LET out == update_view(store, next_id, contexts[r], json_ok, fields,
                                   has_admin_permission, store_ok)
            IN /\ store' = out.store
               /\ last' = out.last
               /\ contexts' = Pop(contexts, r)
    /\ UNCHANGED <<author, next_id, search_vars, anonymize_vars, hook_vars>>

DeleteLoaded ==
    /\ Idle
    /\ \E r \in DOMAIN contexts, store_ok \in BOOLEAN :
         LET out == delete_view(store, contexts[r], store_ok)
         IN /\ store' = out.store
            /\ last' = out.last
            /\ contexts' = Pop(contexts, r)
    /\ UNCHANGED <<author, next_id, search_vars, anonymize_vars, hook_vars>>

NextConcurrent ==
    \/ CreateOne
    \/ Traverse
    \/ UpdateLoaded
    \/ DeleteLoaded
    \/ Respond

SpecConcurrent == Init /\ [][NextConcurrent]_vars

-----------------------------------------------------------------------------
(* h/api/search.py.  The request parameters are a webob multidict: a list  *)
(* of key/value pairs in which a key can occur more than once.             *)

\* a one-key dict {k: v}
Dict1(k, v) == [x \in {k} |-> v]

\* key in request_params
HasKey(params, key) == \E i \in DOMAIN params : params[i][1] = key

\* the position of the first pair of the key
FirstIndex(params, key) ==
    CHOOSE i \in DOMAIN params :
        /\ params[i][1] = key
        /\ \A j \in 1..(i - 1) : params[j][1] # key

\* request_params.pop(key) returns the value of the first pair of the key ...
PopValue(params, key) == params[FirstIndex(params, key)][2]

\* ... and removes that pair only
PopFirst(params, key) ==
    IF ~HasKey(params, key) THEN params
    ELSE LET i == FirstIndex(params, key)
         IN SubSeq(params, 1, i - 1) \o SubSeq(params, i + 1, Len(params))

\* del request_params[key] removes every pair of the key
RECURSIVE DelAll(_, _)
DelAll(params, key) ==
    IF params = <<>> THEN <<>>
    ELSE IF Head(params)[1] = key THEN DelAll(Tail(params), key)
         ELSE <<Head(params)>> \o DelAll(Tail(params), key)

\* request_params.getall(key)
RECURSIVE GetAll(_, _)
GetAll(params, key) ==
    IF params = <<>> THEN <<>>
    ELSE IF Head(params)[1] = key THEN <<Head(params)[2]>> \o GetAll(Tail(params), key)
         ELSE GetAll(Tail(params), key)

\* int(s) of a string: surrounding blanks, an optional sign, then decimal
\* digits and nothing else; anything else is a ValueError (ok = FALSE)
DigitValue ==
    [c \in {"0", "1", "2", "3", "4", "5", "6", "7", "8", "9"} |->
        CASE c = "0" -> 0 [] c = "1" -> 1 [] c = "2" -> 2 [] c = "3" -> 3 [] c = "4" -> 4
          [] c = "5" -> 5 [] c = "6" -> 6 [] c = "7" -> 7 [] c = "8" -> 8 [] c = "9" -> 9]

RECURSIVE StripLeft(_)
StripLeft(s) == IF s # <<>> /\ Head(s) = " " THEN StripLeft(Tail(s)) ELSE s

RECURSIVE StripRight(_)
StripRight(s) ==
    IF s # <<>> /\ s[Len(s)] = " " THEN StripRight(SubSeq(s, 1, Len(s) - 1)) ELSE s

RECURSIVE DigitsValue(_, _)
DigitsValue(s, acc) ==
    IF s = <<>> THEN acc ELSE DigitsValue(Tail(s), 10 * acc + DigitValue[Head(s)])

ParseInt(s) ==
    LET t == StripRight(StripLeft(s))
        signed == t # <<>> /\ Head(t) \in {"+", "-"}
        digits == IF signed THEN Tail(t) ELSE t
    IN IF digits = <<>> \/ \E i \in DOMAIN digits : digits[i] \notin DOMAIN DigitValue
       THEN [ok |-> FALSE, value |-> 0]
       ELSE [ok |-> TRUE,
             value |-> IF signed /\ Head(t) = "-"
                       THEN 0 - DigitsValue(digits, 0)
                       ELSE DigitsValue(digits, 0)]

\* the strings the model spells out, as lists of characters
S_updated == <<"u", "p", "d", "a", "t", "e", "d">>
S_desc == <<"d", "e", "s", "c">>
S_created == <<"c", "r", "e", "a", "t", "e", "d">>
S_asc == <<"a", "s", "c">>
S_alice == <<"a", "l", "i", "c", "e">>
S_bob == <<"b", "o", "b">>
S_uri == <<"h", "t", "t", "p", ":", "/", "/", "x">>

DefaultFrom == 0
DefaultSize == 20

\* does the filter clause hold of the document?  ("term" holds when the
\* document has the field with that value, "not" negates)
TermHolds(term, doc) == \A k \in DOMAIN term : Has(doc, k) /\ doc[k] = term[k]

ClauseHolds(clause, doc) ==
    IF Has(clause, "not") THEN ~TermHolds(clause["not"]["term"], doc)
    ELSE TermHolds(clause["term"], doc)

\* a bool filter of "should" clauses admits a document when one of them holds
FilterAdmits(filter, doc) ==
    \E i \in DOMAIN filter["bool"]["should"] :
        ClauseHolds(filter["bool"]["should"][i], doc)

\* a filter that never lets the authorized user's own annotations through
nipsa_filter_without_user(q, uid) ==
    Put(q, "query",
        [filtered |->
            [filter |-> [bool |-> [should |->
                 << [not |-> [term |-> [not_in_public_site_areas |-> TRUE]]] >> ]],
             query |-> q["query"]]])

nipsa_filter(q, uid) ==
    LET should_clauses ==
            << [not |-> [term |-> [not_in_public_site_areas |-> TRUE]]] >>
            \o (IF uid # None /\ uid # "" THEN << [term |-> [user |-> uid]] >> ELSE <<>>)
    IN Put(q, "query",
           [filtered |->
               [filter |-> [bool |-> [should |-> should_clauses]],
                query |-> q["query"]]])

\* a paging parameter read without the test for a negative number
paging_unchecked(params, key, default) ==
    IF ~HasKey(params, key) THEN default
    ELSE LET n == ParseInt(PopValue(params, key))
         IN IF ~n.ok THEN default ELSE n.value

\* try: n = int(request_params.pop(key)); if n < 0: raise ValueError
\* except (ValueError, KeyError): n = default
paging(params, key, default) ==
    IF ~HasKey(params, key) THEN default
    ELSE LET n == ParseInt(PopValue(params, key))
         IN IF ~n.ok \/ n.value < 0 THEN default ELSE n.value

\* request_params.pop(key, default)
PopOr(params, key, default) ==
    IF HasKey(params, key) THEN PopValue(params, key) ELSE default

\* for key, value in request_params.items(): matches.append({"match": {key: value}})
RECURSIVE match_clauses(_)
match_clauses(params) ==
    IF params = <<>> THEN <<>>
    ELSE << [match |-> Dict1(Head(params)[1], Head(params)[2])] >>
         \o match_clauses(Tail(params))

build_query(params, uid) ==
    LET p0 == params
        from_ == paging(p0, "offset", DefaultFrom)
        p1 == PopFirst(p0, "offset")
        size == paging(p1, "limit", DefaultSize)
        p2 == PopFirst(p1, "limit")
        sort_key == PopOr(p2, "sort", S_updated)
        p3 == PopFirst(p2, "sort")
        order == PopOr(p3, "order", S_desc)
        p4 == PopFirst(p3, "order")
        any == IF HasKey(p4, "any")
               THEN << [multi_match |->
                          [fields |-> <<"quote", "tags", "text", "uri.parts", "user">>,
                           query |-> GetAll(p4, "any"),
                           type |-> "cross_fields"]] >>
               ELSE <<>>
        p5 == DelAll(p4, "any")
        found == any \o match_clauses(p5)
        matches == IF found = <<>> THEN << [match_all |-> EmptyDict] >> ELSE found
        q == [from |-> from_,
              size |-> size,
              sort |-> << Dict1(sort_key, [ignore_unmapped |-> TRUE, order |-> order]) >>,
              query |-> [bool |-> [must |-> matches]]]
    IN nipsa_filter(q, uid)

\* Objects and references.  The heap is the list of the objects of a call; a
\* reference is a position in it, and two names of one object hold the same
\* reference.  Alloc puts a new object on the heap.
Alloc(h, value) == [heap |-> Append(h, value), ref |-> Len(h) + 1]

\* a callee that works on the caller's own object
multidict_alias(h, ref) == [heap |-> h, ref |-> ref]

\* request_params.copy(): a new multidict with the same pairs
multidict_copy(h, ref) == Alloc(h, h[ref])

\* copy.deepcopy(query): a new dict that shares nothing with the given one
deepcopy(h, ref) == Alloc(h, h[ref])

\* what the pops and the del of build_query leave of the multidict they work on
consumed(params) ==
    DelAll(PopFirst(PopFirst(PopFirst(PopFirst(params, "offset"), "limit"),
                             "sort"), "order"), "any")

\* the query dict build_query makes, before it is filtered
unfiltered(params) ==
    LET filtered == build_query(params, None)
    IN Put(filtered, "query", filtered["query"]["filtered"]["query"])

\* nipsa_filter on references: the given dict is copied, and the copy's
\* "query" key is set and the copy returned
nipsa_filter_call(h, ref, uid) ==
    LET c == deepcopy(h, ref)
    IN [heap |-> [c.heap EXCEPT ![c.ref] = nipsa_filter(c.heap[c.ref], uid)],
        ref |-> c.ref]

\* build_query on references: the multidict is copied, the copy is emptied
\* of what is read from it, a query dict is made and handed to nipsa_filter
build_query_call(h, params_ref, uid) ==
    LET c == multidict_copy(h, params_ref)
        params == c.heap[c.ref]
        h1 == [c.heap EXCEPT ![c.ref] = consumed(params)]
        q == Alloc(h1, unfiltered(params))
        f == nipsa_filter_call(q.heap, q.ref, uid)
    IN [heap |-> f.heap, ref |-> f.ref,
        frame |-> [params_ref |-> params_ref, params |-> h[params_ref],
                  local_ref |-> c.ref,
                  query_ref |-> q.ref, query |-> q.heap[q.ref],
                  result_ref |-> f.ref]]

\* the requests the search is given
Alphabet == {"0", "2", "-", "x"}

NumberStrings ==
    {<<>>} \cup {<<a>> : a \in Alphabet} \cup {<<a, b>> : a \in Alphabet, b \in Alphabet}

ParamItems ==
    {<<k, v>> : k \in {"offset", "limit"}, v \in NumberStrings}
    \cup {<<"sort", S_created>>, <<"order", S_asc>>,
          <<"any", S_alice>>, <<"any", S_bob>>, <<"uri", S_uri>>}

ParamLists == UNION {[1..n -> ParamItems] : n \in 0..MaxParams}

Viewers == {None, "", "alice"}

InitSearch ==
    /\ store = EmptyDict
    /\ author = EmptyDict
    /\ next_id = 1
    /\ last = NoCall
    /\ contexts = EmptyDict
    /\ request_params \in ParamLists
    /\ user_id \in Viewers
    /\ query = EmptyDict
    /\ heap = <<request_params>>
    /\ frame = NoSearch
    /\ user_queries = EmptyDict
    /\ given = EmptyDict
    /\ record = EmptyDict
    /\ applied = <<>>
    /\ exchange = NoExchange
    /\ after = NotRun

\* the caller holds its parameters at reference 1 and gets the reference of
\* the query back
BuildQuery ==
    /\ query = EmptyDict
    /\ heap' = build_query_call(heap, 1, user_id).heap
    /\ frame' = build_query_call(heap, 1, user_id).frame
    /\ request_params' = heap'[frame'.params_ref]
    /\ query' = heap'[frame'.result_ref]
    /\ UNCHANGED <<store, author, next_id, last, contexts, user_id, user_queries,
                   anonymize_vars, hook_vars>>

NextSearch == BuildQuery

SpecSearch == InitSearch /\ [][NextSearch]_vars

-----------------------------------------------------------------------------
(* The per-user queries of h/api/search.py: query_for_users_annotations,   *)
(* nipsad_annotations and not_nipsad_annotations.  Each call hands out a   *)
(* query dict by reference, and the caller may append clauses to it.       *)

MaxAppends == 2

\* the dict query_for_users_annotations makes
users_annotations(uid) ==
    [query |-> [filtered |-> [filter |-> [bool |->
        [must |-> << [term |-> [user |-> uid]] >>]]]]]

\* query["query"]["filtered"]["filter"]["bool"]["must"].append(clause)
AppendMust(q, clause) ==
    [q EXCEPT !["query"]["filtered"]["filter"]["bool"]["must"] = Append(@, clause)]

\* a query_for_users_annotations that hands out one dict, made once
query_for_users_annotations_shared(h, uid) ==
    IF h = <<>> THEN Alloc(h, users_annotations(uid)) ELSE [heap |-> h, ref |-> 1]

\* query_for_users_annotations: a new dict at every call
query_for_users_annotations(h, uid) == Alloc(h, users_annotations(uid))

nipsad_annotations(h, uid) ==
    LET q == query_for_users_annotations(h, uid)
    IN [heap |-> [q.heap EXCEPT ![q.ref] =
                     AppendMust(@, [term |-> [not_in_public_site_areas |-> TRUE]])],
        ref |-> q.ref]

not_nipsad_annotations(h, uid) ==
    LET q == query_for_users_annotations(h, uid)
    IN [heap |-> [q.heap EXCEPT ![q.ref] =
                     AppendMust(@, [not |-> [term |-> [not_in_public_site_areas |-> TRUE]]])],
        ref |-> q.ref]

\* a bool filter of "must" clauses admits a document when all of them hold
MustAdmits(filter, doc) ==
    \A i \in DOMAIN filter["bool"]["must"] :
        ClauseHolds(filter["bool"]["must"][i], doc)

\* the clauses a caller appends to a query it was handed
CallerClauses == { [term |-> [deleted |-> TRUE]], [term |-> [user |-> "carol"]] }

\* the number of clauses the callers have appended
RECURSIVE Appends(_)
Appends(names) ==
    IF names = {} THEN 0
    ELSE LET n == CHOOSE x \in names : TRUE
         IN user_queries[n].appended + Appends(names \ {n})

InitUserQueries ==
    /\ store = EmptyDict
    /\ author = EmptyDict
    /\ next_id = 1
    /\ last = NoCall
    /\ contexts = EmptyDict
    /\ request_params = <<>>
    /\ user_id \in {"alice", "bob", "carol"}
    /\ query = None
    /\ heap = <<>>
    /\ frame = NoSearch
    /\ user_queries = EmptyDict
    /\ given = EmptyDict
    /\ record = EmptyDict
    /\ applied = <<>>
    /\ exchange = NoExchange
    /\ after = NotRun

NipsadAnnotations ==
    /\ ~Has(user_queries, "nipsad_annotations")
    /\ LET q == nipsad_annotations(heap, user_id)
       IN /\ heap' = q.heap
          /\ user_queries' = Put(user_queries, "nipsad_annotations",
                                 [ref |-> q.ref, appended |-> 0])
    /\ UNCHANGED <<store, author, next_id, last, contexts, request_params, user_id, query,
                   frame, anonymize_vars, hook_vars>>

NotNipsadAnnotations ==
    /\ ~Has(user_queries, "not_nipsad_annotations")
    /\ LET q == not_nipsad_annotations(heap, user_id)
       IN /\ heap' = q.heap
          /\ user_queries' = Put(user_queries, "not_nipsad_annotations",
                                 [ref |-> q.ref, appended |-> 0])
    /\ UNCHANGED <<store, author, next_id, last, contexts, request_params, user_id, query,
                   frame, anonymize_vars, hook_vars>>

\* the caller of one of the two functions appends a clause to what it got
CallerAppends ==
    /\ Appends(DOMAIN user_queries) < MaxAppends
    /\ \E name \in DOMAIN user_queries, clause \in CallerClauses :
         /\ heap' = [heap EXCEPT ![user_queries[name].ref] = AppendMust(@, clause)]
         /\ user_queries' = [user_queries EXCEPT ![name].appended = @ + 1]
    /\ UNCHANGED <<store, author, next_id, last, contexts, request_params, user_id, query,
                   frame, anonymize_vars, hook_vars>>

NextUserQueries == NipsadAnnotations \/ NotNipsadAnnotations \/ CallerAppends

SpecUserQueries == InitUserQueries /\ [][NextUserQueries]_vars

-----------------------------------------------------------------------------
(* Anonymization on its own: _anonymize_deletes of h/api/views.py, as      *)
(* _update_annotation calls it, and anonymize_deletes of h/api/store.py,   *)
(* the before_annotation_update hook of the embedded store.                *)

MaxApplications == 2

\* an anonymization that takes the author out of an identity list once only
RECURSIVE WithoutFirst(_, _)
WithoutFirst(s, v) ==
    IF s = <<>> THEN <<>>
    ELSE IF Head(s) = v THEN Tail(s)
         ELSE <<Head(s)>> \o WithoutFirst(Tail(s), v)

anonymize_deletes_first_only(annotation) ==
    IF Get(annotation, "deleted", FALSE) # TRUE THEN annotation
    ELSE LET user == Get(annotation, "user", "")
             cleared == IF user # "" THEN Put(annotation, "user", "") ELSE annotation
             permissions == Get(cleared, "permissions", EmptyDict)
         IN IF Has(cleared, "permissions")
            THEN Put(cleared, "permissions",
                     [action \in DOMAIN permissions |->
                         WithoutFirst(permissions[action], user)])
            ELSE cleared

\* anonymize_deletes of store.py: the user is read with a default, and set
\* to the empty string when there is one
anonymize_deletes(annotation) ==
    IF Get(annotation, "deleted", FALSE) # TRUE THEN annotation
    ELSE LET user == Get(annotation, "user", "")
             cleared == IF user # "" THEN Put(annotation, "user", "") ELSE annotation
             permissions == Get(cleared, "permissions", EmptyDict)
         IN IF Has(cleared, "permissions")
            THEN Put(cleared, "permissions",
                     [action \in DOMAIN permissions |->
                         Without(permissions[action], user)])
            ELSE cleared

\* the annotations anonymization is given
World == "group:__world__"

AnonymizePermissions ==
    {EmptyDict,
     [read |-> <<"bob", "carol">>],
     [read |-> <<"bob", "carol", "bob">>, admin |-> <<"bob">>],
     [read |-> <<World>>, admin |-> <<"carol", "bob">>, update |-> <<>>]}

AnonymizeInputs ==
    { DictUpdate(DictUpdate(DictUpdate(u, d), p), t) :
        u \in {EmptyDict, [user |-> ""], [user |-> "bob"], [user |-> "carol"]},
        d \in {EmptyDict, [deleted |-> TRUE], [deleted |-> FALSE]},
        p \in {EmptyDict} \cup {[permissions |-> x] : x \in AnonymizePermissions},
        t \in {EmptyDict, [text |-> "hello", id |-> ServerId(1)]} }

InitAnonymize ==
    /\ store = EmptyDict
    /\ author = EmptyDict
    /\ next_id = 1
    /\ last = NoCall
    /\ contexts = EmptyDict
    /\ request_params = <<>>
    /\ user_id = None
    /\ query = None
    /\ heap = <<>>
    /\ frame = NoSearch
    /\ user_queries = EmptyDict
    /\ given \in AnonymizeInputs
    /\ record = given
    /\ applied = <<>>
    /\ exchange = NoExchange
    /\ after = NotRun

CanApply ==
    /\ Len(applied) < MaxApplications
    /\ \A i \in DOMAIN applied : applied[i].raised = "none"

\* _update_annotation: if annotation.get('deleted', False): _anonymize_deletes(annotation)
AnonymizeInUpdate ==
    /\ CanApply
    /\ LET anon == IF Get(record, "deleted", FALSE) = TRUE
                   THEN anonymize_deletes_view(record)
                   ELSE [raised |-> "none", annotation |-> record]
       IN /\ record' = anon.annotation
          /\ applied' = Append(applied, [by |-> "views", raised |-> anon.raised])
    /\ UNCHANGED <<store, author, next_id, last, contexts, search_vars, given, hook_vars>>

\* flask.g.before_annotation_update = anonymize_deletes
AnonymizeInStore ==
    /\ CanApply
    /\ record' = anonymize_deletes(record)
    /\ applied' = Append(applied, [by |-> "store", raised |-> "none"])
    /\ UNCHANGED <<store, author, next_id, last, contexts, search_vars, given, hook_vars>>

NextAnonymize == AnonymizeInUpdate \/ AnonymizeInStore

SpecAnonymize == InitAnonymize /\ [][NextAnonymize]_vars

-----------------------------------------------------------------------------
(* The embedded store of h/api/store.py: after_request, the hook the flask *)
(* application runs on every response.  Endpoints and header values are    *)
(* lists of characters; a body is what json.loads makes of it.             *)

S_store_dot == <<"s", "t", "o", "r", "e", ".">>
S_annotation == <<"_", "a", "n", "n", "o", "t", "a", "t", "i", "o", "n">>
S_delete == <<"d", "e", "l", "e", "t", "e">>
S_read == <<"r", "e", "a", "d">>
S_update == <<"u", "p", "d", "a", "t", "e">>
S_search == <<"s", "e", "a", "r", "c", "h">>
S_X_Client_ID == <<"X", "-", "C", "l", "i", "e", "n", "t", "-", "I", "D">>
S_Accept == <<"A", "c", "c", "e", "p", "t">>
S_Origin == <<"O", "r", "i", "g", "i", "n">>

\* the characters \w matches, among those of the endpoints
WordChars ==
    {"a", "b", "c", "d", "e", "f", "g", "h", "i", "j", "k", "l", "m", "n", "o", "p", "q",
     "r", "s", "t", "u", "v", "w", "x", "y", "z", "_", "0", "1", "2", "3", "4", "5", "6",
     "7", "8", "9"}

\* the length of the longest run of \w characters s starts with
RECURSIVE WordRun(_)
WordRun(s) ==
    IF s = <<>> \/ Head(s) \notin WordChars THEN 0 ELSE 1 + WordRun(Tail(s))

\* re.match(r'^store\.(\w+)_annotation$', endpoint): the group takes as many
\* \w characters as leave "_annotation" and the end of the string after it
re_match(endpoint) ==
    LET n == Len(endpoint)
        rest == SubSeq(endpoint, Len(S_store_dot) + 1, n)
        taken == {k \in 1..WordRun(rest) :
                     SubSeq(rest, k + 1, Len(rest)) = S_annotation}
    IN IF n < Len(S_store_dot) \/ SubSeq(endpoint, 1, Len(S_store_dot)) # S_store_dot
          \/ taken = {}
       THEN [matched |-> FALSE, action |-> <<>>]
       ELSE [matched |-> TRUE,
             action |-> SubSeq(rest, 1, CHOOSE k \in taken : \A j \in taken : j <= k)]

\* in_value.split(','): the pieces between the commas, one piece at least
RECURSIVE Split(_, _)
Split(s, piece) ==
    IF s = <<>> THEN <<piece>>
    ELSE IF Head(s) = "," THEN <<piece>> \o Split(Tail(s), <<>>)
         ELSE Split(Tail(s), Append(piece, Head(s)))

\* [h.strip() for h in pieces]
RECURSIVE StripEach(_)
StripEach(pieces) ==
    IF pieces = <<>> THEN <<>>
    ELSE <<StripRight(StripLeft(Head(pieces)))>> \o StripEach(Tail(pieces))

\* ', '.join(pieces)
RECURSIVE Join(_)
Join(pieces) ==
    IF pieces = <<>> THEN <<>>
    ELSE IF Len(pieces) = 1 THEN Head(pieces)
         ELSE Head(pieces) \o <<",", " ">> \o Join(Tail(pieces))

\* lib.wrap_annotation(request, data): the data as an annotation
wrap_annotation(data) == data

\* after_request(response), with flask.request the request of the exchange
after_request(x) ==
    LET response == x.response
        in_value == Get(response.headers, "Access-Control-Allow-Headers", <<>>)
        allowed == Append(StripEach(Split(in_value, <<>>)), S_X_Client_ID)
        match == re_match(x.endpoint)
        data == IF match.action = S_delete THEN x.data ELSE response.data
    IN IF x.method = "OPTIONS"
       THEN [ran |-> TRUE, raised |-> "none", events |-> <<>>,
             headers |-> Put(response.headers, "Access-Control-Allow-Headers",
                             Join(allowed))]
       ELSE IF 200 <= response.status_code /\ response.status_code < 300 /\ match.matched
       THEN IF ~data.json
            THEN [ran |-> TRUE, raised |-> "ValueError", events |-> <<>>,
                  headers |-> response.headers]
            ELSE [ran |-> TRUE, raised |-> "none",
                  events |-> << [annotation |-> wrap_annotation(data.value),
                                 action |-> match.action] >>,
                  headers |-> response.headers]
       ELSE [ran |-> TRUE, raised |-> "none", events |-> <<>>,
             headers |-> response.headers]

\* the exchanges the hook is given
Methods == {"GET", "PUT", "DELETE", "OPTIONS"}

Endpoints ==
    { S_store_dot \o a \o S_annotation : a \in {S_delete, S_read, S_update} }
    \cup { S_store_dot \o S_annotation,
           S_store_dot \o S_search,
           <<"x">> \o S_store_dot \o S_read \o S_annotation,
           S_store_dot \o S_read \o S_annotation \o <<"s">>,
           S_store_dot \o <<"a", ".", "b">> \o S_annotation,
           S_store_dot \o S_delete \o S_annotation \o S_annotation }

StatusCodes == {199, 200, 204, 299, 300, 404}

\* a body: json.loads raises ValueError on it, or gives its value
Bodies ==
    { [json |-> FALSE, value |-> EmptyDict] }
    \cup { [json |-> TRUE, value |-> v] :
             v \in { [id |-> ServerId(1), text |-> "hello"], [id |-> ServerId(1)] } }

HeaderSets ==
    { EmptyDict }
    \cup { Dict1("Access-Control-Allow-Headers", v) :
             v \in { <<>>, S_Accept, S_Accept \o <<",">> \o S_Origin,
                     <<" ">> \o S_Accept \o <<" ", ",", " ">> \o S_Origin \o <<",">> } }

InitAfterRequest ==
    /\ store = EmptyDict
    /\ author = EmptyDict
    /\ next_id = 1
    /\ last = NoCall
    /\ contexts = EmptyDict
    /\ request_params = <<>>
    /\ user_id = None
    /\ query = None
    /\ heap = <<>>
    /\ frame = NoSearch
    /\ user_queries = EmptyDict
    /\ given = EmptyDict
    /\ record = EmptyDict
    /\ applied = <<>>
    /\ exchange \in [method : Methods, endpoint : Endpoints, data : Bodies,
                      response : [status_code : StatusCodes, headers : HeaderSets,
                                  data : Bodies]]
    /\ after = NotRun

\* app.after_request(after_request): flask runs the hook on the response
AfterRequest ==
    /\ ~after.ran
    /\ after' = after_request(exchange)
    /\ UNCHANGED <<store, author, next_id, last, contexts, search_vars, anonymize_vars,
                   exchange>>

NextAfterRequest == AfterRequest

SpecAfterRequest == InitAfterRequest /\ [][NextAfterRequest]_vars

-----------------------------------------------------------------------------
(* What the claims speak of.                                               *)

\* the request being answered wrote to the store
Persisted == last.op \in {"create", "update"} /\ "save" \in Range(last.effects)

\* the request being answered was turned down, or raised
Failed == last.op # "none" /\ (last.status # 200 \/ last.raised # "none")

\* the record as it is in the store after the request
Record == store[last.id]

\* field f is the same in a and b: absent from both, or equal
SameField(a, b, f) ==
    /\ Has(a, f) <=> Has(b, f)
    /\ Has(a, f) => a[f] = b[f]

PermissionsOf(annotation) == Get(annotation, "permissions", EmptyDict)

IsDeleted(annotation) == Get(annotation, "deleted", FALSE) = TRUE

\* no identity list of the permissions names who
NotNamed(permissions, who) ==
    \A action \in DOMAIN permissions : who \notin Range(permissions[action])

\* the permissions with who removed from every identity list
Anonymized(permissions, who) ==
    [action \in DOMAIN permissions |-> Without(permissions[action], who)]

\* C1, on create: the persisted record carries the author's id and consumer
\* key, and an id that is not the payload's.
C1_Create ==
    (last.op = "create" /\ Persisted) =>
        /\ last.id \in DOMAIN store
        /\ Get(Record, "user", "") = last.user
        /\ Get(Record, "consumer", "") = ConsumerKey(last.user)
        /\ Has(Record, "id") /\ Record["id"] = last.id
        /\ Has(last.fields, "id") => Record["id"] # last.fields["id"]

\* C1 as stated: create as above, and the record an update
\* persists keeps the id, user, consumer, created and updated it had before.
C1_ProtectedKept ==
    /\ C1_Create
    /\ (last.op = "update" /\ Persisted) =>
          /\ last.id \in DOMAIN store
          /\ \A f \in {"id", "user", "consumer", "created", "updated"} :
                SameField(Record, last.before, f)

\* C1 amended: create as above; the record an update persists keeps its id,
\* consumer, created and updated, and keeps its user unless the update leaves
\* it deleted, in which case the user key is removed (never set from the payload).
C1_ProtectedKeptUnlessDeleted ==
    /\ C1_Create
    /\ (last.op = "update" /\ Persisted) =>
          /\ last.id \in DOMAIN store
          /\ \A f \in {"id", "consumer", "created", "updated"} :
                SameField(Record, last.before, f)
          /\ IF IsDeleted(Record)
             THEN ~Has(Record, "user")
             ELSE SameField(Record, last.before, "user")

\* an update that names all five protected keys was persisted, and left the record deleted
C1_Witness ==
    /\ last.op = "update" /\ Persisted
    /\ {"id", "user", "consumer", "created", "updated"} \subseteq DOMAIN last.fields
    /\ Has(last.before, "user") /\ Has(last.before, "created")
    /\ last.id \in DOMAIN store /\ IsDeleted(Record)

\* the payload of the update changes the permissions, as _update_annotation sees it
ChangesPermissions ==
    /\ Has(last.fields, "permissions")
    /\ last.fields["permissions"] # PermissionsOf(last.before)

\* C2: an update whose payload changes the permissions, made without the
\* admin permission, is answered 401 with a failure, merges nothing, leaves
\* the store as it was and publishes no event.
C2_UnauthorizedUpdateRejected ==
    (last.op = "update" /\ last.json_ok /\ ChangesPermissions /\ ~last.has_admin) =>
        /\ last.status = 401
        /\ Get(last.result, "status", "") = "failure"
        /\ store = last.store_before
        /\ last.effects = <<>>
        /\ last.events = <<>>

\* such an update, whose payload also carries a text and the deleted flag
C2_Witness ==
    /\ last.op = "update" /\ last.json_ok /\ ChangesPermissions /\ ~last.has_admin
    /\ Has(last.fields, "text") /\ ~SameField(last.fields, last.before, "text")
    /\ Has(last.fields, "deleted")
    /\ Has(last.before, "permissions")
    /\ last.status = 401

\* C3: every persisted annotation whose deleted field is true has no user
\* (absent or empty) and does not name its original author in any identity
\* list of its permissions.
C3_DeletedAreAnonymized ==
    \A id \in DOMAIN store :
        IsDeleted(store[id]) =>
            /\ Get(store[id], "user", "") = ""
            /\ NotNamed(PermissionsOf(store[id]), author[id])

\* C4: the record a create persists has not_in_public_site_areas = true
\* if and only if its author is on the suppression list at the time of the call.
C4_FlagIffSuppressed ==
    (last.op = "create" /\ Persisted /\ last.id \in DOMAIN store) =>
        (Get(Record, "not_in_public_site_areas", FALSE) = TRUE
            <=> last.user \in last.nipsa_user)

\* the ids whose persisted permissions the request being answered changed
PermissionsChanged ==
    {id \in DOMAIN store \cap DOMAIN last.store_before :
        PermissionsOf(store[id]) # PermissionsOf(last.store_before[id])}

\* C5 as stated: the persisted permissions of a record change
\* only through an update made with the admin permission.
C5_OnlyAdminChangesPermissions ==
    \A id \in PermissionsChanged : last.op = "update" /\ last.has_admin

\* C5 amended: the persisted permissions of a record change only through an
\* update of that record; an update made without the admin permission persists
\* the permissions of the version of the record it loaded, or, when it leaves
\* the record deleted, those permissions with the record's user removed from
\* every identity list.
C5_OnlyAdminOrLoadedOrAnonymized ==
    /\ \A id \in PermissionsChanged : last.op = "update" /\ id = last.id /\ Persisted
    /\ (last.op = "update" /\ Persisted /\ ~last.has_admin) =>
          /\ last.id \in DOMAIN store
          /\ IF IsDeleted(Record)
             THEN /\ Has(last.before, "user")
                  /\ PermissionsOf(Record)
                        = Anonymized(PermissionsOf(last.before), last.before["user"])
             ELSE PermissionsOf(Record) = PermissionsOf(last.before)

\* an update without the admin permission, made on a version loaded before
\* another update changed the permissions, brought the loaded permissions back
C5_Witness ==
    /\ last.op = "update" /\ Persisted /\ ~last.has_admin
    /\ last.id \in PermissionsChanged
    /\ ~IsDeleted(Record)
    /\ PermissionsOf(Record) = PermissionsOf(last.before)

\* an update without the admin permission changed the persisted permissions
\* of the version it loaded, by anonymization
C5_WitnessAnonymized ==
    /\ last.op = "update" /\ Persisted /\ ~last.has_admin
    /\ IsDeleted(Record)
    /\ PermissionsOf(Record) # PermissionsOf(last.before)
    /\ \E action \in DOMAIN PermissionsOf(Record) : PermissionsOf(Record)[action] # <<>>

\* C6: in a create, update or delete, an event is published only after the
\* store operation of the same call, one event at most, and a call that was
\* refused, could not parse its payload, raised or could not persist
\* publishes nothing and leaves the store as it was.
C6_PersistThenPublish ==
    last.op \in {"create", "update", "delete"} =>
        /\ \A i \in DOMAIN last.effects :
              last.effects[i] = "notify" =>
                 \E j \in 1..(i - 1) : last.effects[j] \in {"save", "delete"}
        /\ Len(last.events) = Cardinality({i \in DOMAIN last.effects : last.effects[i] = "notify"})
        /\ Len(last.events) <= 1
        /\ Failed => (last.events = <<>> /\ last.effects = <<>> /\ store = last.store_before)
        /\ ~Failed => last.effects \in {<<"save", "notify">>, <<"delete", "notify">>}

\* a delete that the store refused
C6_Witness ==
    /\ last.op = "delete" /\ ~last.store_ok
    /\ Failed /\ last.events = <<>> /\ last.id \in DOMAIN store

\* C7: a delete that the store carries out removes the record and no other,
\* publishes one event, with action "delete" and the record as it was before
\* the call, and returns {id, deleted: true}, not the record.
C7_Delete ==
    (last.op = "delete" /\ last.store_ok) =>
        /\ last.id \in DOMAIN last.store_before
        /\ last.before = last.store_before[last.id]
        /\ store = StoreDelete(last.store_before, last.id)
        /\ last.id \notin DOMAIN store
        /\ last.events = <<[annotation |-> last.before, action |-> "delete"]>>
        /\ last.result = [id |-> last.id, deleted |-> TRUE]
        /\ last.result # last.before
        /\ last.status = 200

\* a delete of a record that carried a text and permissions
C7_Witness ==
    /\ last.op = "delete" /\ last.store_ok
    /\ Has(last.before, "text") /\ Has(last.before, "permissions")
    /\ last.id \notin DOMAIN store

\* the query was built
Built == query # EmptyDict

\* the parts of the built query
QueryFilter == query["query"]["filtered"]["filter"]
QueryMust == query["query"]["filtered"]["query"]["bool"]["must"]

\* the documents of the index, as far as the visibility filter reads them
Documents ==
    { DictUpdate(u, n) :
        u \in {EmptyDict, [user |-> ""], [user |-> "alice"], [user |-> "bob"]},
        n \in {EmptyDict, [not_in_public_site_areas |-> TRUE],
               [not_in_public_site_areas |-> FALSE]} }

Suppressed(doc) == Get(doc, "not_in_public_site_areas", FALSE) = TRUE

\* C8: the filter of the built query admits every document that is not
\* suppressed and every document whose user is the viewer, and no suppressed
\* document of another user; without a viewer (None or empty) it admits
\* exactly the documents that are not suppressed.
C8_VisibilityFilter ==
    Built =>
        \A doc \in Documents :
            FilterAdmits(QueryFilter, doc) <=>
                \/ ~Suppressed(doc)
                \/ /\ user_id \notin {None, ""}
                   /\ Has(doc, "user") /\ doc["user"] = user_id

\* a viewer whose own suppressed document is admitted while another user's is not
C8_Witness ==
    /\ Built /\ user_id = "alice"
    /\ FilterAdmits(QueryFilter, [user |-> "alice", not_in_public_site_areas |-> TRUE])
    /\ ~FilterAdmits(QueryFilter, [user |-> "bob", not_in_public_site_areas |-> TRUE])

\* the value given for a paging key: that of its first pair
Given(key) == PopValue(request_params, key)

UsesDefault(key) ==
    \/ ~HasKey(request_params, key)
    \/ ~ParseInt(Given(key)).ok
    \/ ParseInt(Given(key)).value < 0

\* C9: the built query has from = 0 when offset is absent, is no integer or
\* is negative, and the integer given otherwise; size = 20 when limit is
\* absent, is no integer or is negative, and the integer given otherwise;
\* each whatever the other is, and a query is built for every parameter list.
C9_Paging ==
    Built =>
        /\ query["from"] = IF UsesDefault("offset") THEN 0
                           ELSE ParseInt(Given("offset")).value
        /\ query["size"] = IF UsesDefault("limit") THEN 20
                           ELSE ParseInt(Given("limit")).value
        /\ query["from"] >= 0 /\ query["size"] >= 0

\* a negative offset beside a good limit
C9_Witness ==
    /\ Built
    /\ request_params = << <<"offset", <<"-", "2">>>>, <<"limit", <<"2", "2">>>> >>
    /\ query["from"] = 0 /\ query["size"] = 22

\* C10: when the parameters hold no key other than offset, limit, sort and
\* order, the must-list of the built query is one match-all clause.
C10_MatchAll ==
    (Built /\ \A i \in DOMAIN request_params :
                 request_params[i][1] \in {"offset", "limit", "sort", "order"}) =>
        QueryMust = << [match_all |-> EmptyDict] >>

\* the keys build_query reads for itself
ReservedKeys == {"offset", "limit", "sort", "order", "any"}

IsFieldPair(pair) == pair[1] \notin ReservedKeys

\* the exact-field clauses of the pairs whose key is not reserved, in order
FieldClauses == match_clauses(SelectSeq(request_params, IsFieldPair))

\* the cross-field clause over the five fields, carrying every value of any
AnyClause ==
    [multi_match |->
        [fields |-> <<"quote", "tags", "text", "uri.parts", "user">>,
         query |-> GetAll(request_params, "any"),
         type |-> "cross_fields"]]

\* C11: the must-list of the built query is the cross-field clause over
\* quote, tags, text, uri.parts and user carrying all values of any, there
\* if and only if any is given, followed by one exact-field match clause for
\* each pair whose key is not offset, limit, sort, order or any (a single
\* match-all clause when that leaves nothing); none of these five keys is
\* the field of an exact-field match clause.
C11_MustList ==
    Built =>
        /\ QueryMust =
             LET expected == (IF HasKey(request_params, "any")
                              THEN <<AnyClause>> ELSE <<>>) \o FieldClauses
             IN IF expected = <<>> THEN << [match_all |-> EmptyDict] >> ELSE expected
        /\ \A i \in DOMAIN QueryMust :
              Has(QueryMust[i], "match") =>
                  DOMAIN QueryMust[i]["match"] \cap ReservedKeys = {}

\* C12: after build_query returns, the caller's parameter collection holds
\* the pairs it held before the call, the reserved ones included (the pops
\* and the del worked on another object); the query dict handed to
\* nipsa_filter is as it was when handed over, and the dict returned is
\* another object.
C12_InputsUnchanged ==
    Built =>
        /\ request_params = frame.params
        /\ heap[frame.params_ref] = frame.params
        /\ frame.local_ref # frame.params_ref
        /\ heap[frame.query_ref] = frame.query
        /\ frame.result_ref # frame.query_ref
        /\ query = heap[frame.result_ref]

\* a call whose working copy lost pairs (offset and any among them) and
\* whose result differs from the dict that was filtered
C12_Witness ==
    /\ Built
    /\ HasKey(request_params, "offset") /\ HasKey(request_params, "any")
    /\ heap[frame.local_ref] = <<>>
    /\ heap[frame.result_ref] # heap[frame.query_ref]

\* the update was let through by the permission check and the store
Accepted ==
    /\ last.op = "update" /\ last.json_ok /\ last.store_ok
    /\ ~(ChangesPermissions /\ ~last.has_admin)

\* C13: an update of a record that is already deleted and anonymized (no
\* user, or an empty one) succeeds: nothing is raised, the record is
\* persisted, its user is as before and, when the payload names no
\* permissions, so are its permissions.
C13_AnonymizedStaysUpdatable ==
    (Accepted /\ IsDeleted(last.before) /\ Get(last.before, "user", "") = "") =>
        /\ last.raised = "none" /\ last.status = 200
        /\ Persisted
        /\ SameField(Record, last.before, "user")
        /\ ~Has(last.fields, "permissions") =>
               SameField(Record, last.before, "permissions")

\* the request being answered left the store and the subscribers alone
NoEffect == store = last.store_before /\ last.effects = <<>> /\ last.events = <<>>

\* C15: a create or an update whose body is not well-formed JSON is answered
\* 400 with a failure that carries a reason, and has no effect on the store
\* or on the subscribers; nor has any create or update answered 400 or 401.
C15_RejectionsAreTotal ==
    /\ (last.op \in {"create", "update"} /\ ~last.json_ok) =>
          /\ last.status = 400
          /\ Get(last.result, "status", "") = "failure"
          /\ Get(last.result, "reason", "") # ""
          /\ NoEffect
    /\ (last.op \in {"create", "update"} /\ last.status \in {400, 401}) => NoEffect

\* an update of a stored record with a malformed body was rejected
C15_Witness ==
    /\ last.op = "update" /\ ~last.json_ok /\ last.status = 400
    /\ last.id \in DOMAIN store /\ store[last.id] = last.before

\* the list with every occurrence of who taken out, the rest in its order
Others(list, who) == LET kept(role) == role # who IN SelectSeq(list, kept)

\* C16: one anonymization of a deleted annotation whose user is a (not
\* empty) raises nothing and leaves the user empty or absent, the same action
\* keys, under each action the list it had without any occurrence of a and
\* with the other identities in their order, and every other field as it was.
C16_Anonymize ==
    (/\ Len(applied) = 1
     /\ Get(given, "deleted", FALSE) = TRUE
     /\ Get(given, "user", "") # "") =>
        /\ applied[1].raised = "none"
        /\ Get(record, "user", "") = ""
        /\ Has(record, "permissions") <=> Has(given, "permissions")
        /\ DOMAIN PermissionsOf(record) = DOMAIN PermissionsOf(given)
        /\ \A action \in DOMAIN PermissionsOf(given) :
              PermissionsOf(record)[action] =
                  Others(PermissionsOf(given)[action], given["user"])
        /\ DOMAIN record \ {"user"} = DOMAIN given \ {"user"}
        /\ \A f \in DOMAIN given \ {"user", "permissions"} : record[f] = given[f]

\* {user: bob, permissions: {read: [bob, carol, bob], admin: [bob]}} was
\* anonymized by the store's hook into {read: [carol], admin: []}
C16_Witness ==
    /\ Len(applied) = 1 /\ applied[1].by = "store"
    /\ Get(given, "deleted", FALSE) = TRUE
    /\ Get(given, "user", "") = "bob"
    /\ PermissionsOf(given) = [read |-> <<"bob", "carol", "bob">>, admin |-> <<"bob">>]
    /\ Get(record, "user", "x") = ""
    /\ PermissionsOf(record) = [read |-> <<"carol">>, admin |-> <<>>]

\* the fields of the payload that an update takes over
Named == DOMAIN last.fields \ Range(PROTECTED_FIELDS)

\* C17: the record persisted by an update that does not leave it deleted has
\* the fields of the stored record and the non-protected fields of the
\* payload, and no other; each non-protected field of the payload has the
\* payload's value, and every other field (the protected ones among them) the
\* value it had.
C17_ShallowMerge ==
    (last.op = "update" /\ Persisted /\ last.id \in DOMAIN store /\ ~IsDeleted(Record)) =>
        /\ DOMAIN Record = DOMAIN last.before \cup Named
        /\ \A f \in Named : Record[f] = last.fields[f]
        /\ \A f \in DOMAIN last.before \ Named : Record[f] = last.before[f]

\* an update that names a text and a protected field, on a record that has
\* permissions the payload does not name
C17_Witness ==
    /\ last.op = "update" /\ Persisted /\ last.id \in DOMAIN store /\ ~IsDeleted(Record)
    /\ Has(last.fields, "text") /\ Has(last.fields, "user")
    /\ last.fields["user"] # last.before["user"]
    /\ ~Has(last.before, "text")
    /\ Has(last.before, "permissions") /\ ~Has(last.fields, "permissions")

\* C18: a read does nothing to the store, publishes one event, whose action
\* is "read" and whose annotation is the stored record, and returns that
\* record as it is stored.
C18_Read ==
    last.op = "read" =>
        /\ store = last.store_before
        /\ last.effects = <<"notify">>
        /\ last.id \in DOMAIN store
        /\ last.events = << [annotation |-> store[last.id], action |-> "read"] >>
        /\ last.result = store[last.id]
        /\ last.status = 200 /\ last.raised = "none"

\* a read of a stored record that has a text and is deleted
C18_Witness ==
    /\ last.op = "read" /\ last.id \in DOMAIN store
    /\ last.result = store[last.id]
    /\ Has(last.result, "text") /\ IsDeleted(last.result)

\* the version the request loaded merged with its payload: the payload's
\* non-protected fields over the loaded ones
Merged ==
    [f \in DOMAIN last.before \cup Named |->
        IF f \in Named THEN last.fields[f] ELSE last.before[f]]

\* the record an update writes: the merge, anonymized when it is deleted
Written ==
    IF ~IsDeleted(Merged) THEN Merged
    ELSE LET unnamed == [f \in DOMAIN Merged \ {"user"} |-> Merged[f]]
         IN IF Has(Merged, "permissions")
            THEN Put(unnamed, "permissions",
                     Anonymized(Merged["permissions"], Merged["user"]))
            ELSE unnamed

\* the update would go through if it were the only request: its body parses,
\* the store takes the write, it changes no permissions without the admin
\* permission, and the version it loaded can be anonymized if need be
GoesThroughAlone ==
    /\ Accepted
    /\ IsDeleted(Merged) => Has(last.before, "user")

\* another request has written or removed the record since this one loaded it
Stale ==
    \/ last.id \notin DOMAIN last.store_before
    \/ last.store_before[last.id] # last.before

\* C19: an update that would go through alone goes through whatever was
\* persisted since it loaded the record, and the stored record is then the
\* record it wrote, the version it loaded merged with its own payload: what
\* another request stored in between, in fields this one does not name, is
\* replaced by what this one loaded.
C19_LastWriterWins ==
    (last.op = "update" /\ GoesThroughAlone) =>
        /\ Persisted /\ last.status = 200 /\ last.raised = "none"
        /\ last.id \in DOMAIN store
        /\ Record = Written
        /\ \A f \in DOMAIN last.before \ Named :
              ~IsDeleted(Merged) => Record[f] = last.before[f]

\* two requests loaded the record without a text; the first stored a text,
\* the second, naming other fields, stored the record without it
C19_Witness ==
    /\ last.op = "update" /\ Persisted /\ Stale
    /\ last.id \in DOMAIN last.store_before
    /\ Has(last.store_before[last.id], "text")
    /\ ~Has(last.before, "text") /\ ~Has(last.fields, "text")
    /\ last.id \in DOMAIN store /\ ~Has(Record, "text")
    /\ Has(last.fields, "permissions") /\ PermissionsOf(Record) = last.fields["permissions"]

\* the filter of the query a function handed out
HandedOut(name) == heap[user_queries[name].ref]["query"]["filtered"]["filter"]

\* the caller of the function has appended nothing to its query
Untouched(name) == Has(user_queries, name) /\ user_queries[name].appended = 0

IsOf(doc, uid) == Has(doc, "user") /\ doc["user"] = uid

\* C20: as long as its own caller appends nothing to it, the query of
\* nipsad_annotations(u) admits exactly the documents of u whose
\* not_in_public_site_areas is true and the query of
\* not_nipsad_annotations(u) exactly the other documents of u, whatever is
\* appended to the other query; so a document of u is admitted by exactly
\* one of the two and a document of another user by neither; and the two
\* queries are two objects.
C20_UserQueries ==
    /\ Untouched("nipsad_annotations") =>
          \A doc \in Documents :
              MustAdmits(HandedOut("nipsad_annotations"), doc) <=>
                  (IsOf(doc, user_id) /\ Suppressed(doc))
    /\ Untouched("not_nipsad_annotations") =>
          \A doc \in Documents :
              MustAdmits(HandedOut("not_nipsad_annotations"), doc) <=>
                  (IsOf(doc, user_id) /\ ~Suppressed(doc))
    /\ (Has(user_queries, "nipsad_annotations")
          /\ Has(user_queries, "not_nipsad_annotations")) =>
          user_queries["nipsad_annotations"].ref
              # user_queries["not_nipsad_annotations"].ref

\* both queries were handed out, a clause was appended to the second, and the
\* first still admits alice's suppressed document and not her other one
C20_Witness ==
    /\ user_id = "alice"
    /\ Untouched("nipsad_annotations")
    /\ Has(user_queries, "not_nipsad_annotations")
    /\ user_queries["not_nipsad_annotations"].appended > 0
    /\ MustAdmits(HandedOut("nipsad_annotations"),
                  [user |-> "alice", not_in_public_site_areas |-> TRUE])
    /\ ~MustAdmits(HandedOut("nipsad_annotations"), [user |-> "alice"])

\* the endpoint is store.<action>_annotation, for an action of one \w
\* character or more
HasForm(endpoint, action) ==
    /\ action # <<>>
    /\ \A i \in DOMAIN action : action[i] \in WordChars
    /\ endpoint = S_store_dot \o action \o S_annotation

\* the actions the endpoint of the exchange can stand for
ActionsOf ==
    { SubSeq(exchange.endpoint, Len(S_store_dot) + 1, k) :
        k \in (Len(S_store_dot) + 1)..Len(exchange.endpoint) }

Announces == \E action \in ActionsOf : HasForm(exchange.endpoint, action)

\* the header list the hook left, as the hook reads such a list
AllowedAfter ==
    StripEach(Split(Get(after.headers, "Access-Control-Allow-Headers", <<>>), <<>>))

AllowedBefore ==
    StripEach(Split(Get(exchange.response.headers, "Access-Control-Allow-Headers", <<>>),
                    <<>>))

\* C21: the hook returns the response and notifies one event at most; it
\* notifies one exactly when the method is not OPTIONS, the status is in
\* 200..299 and the endpoint is store.<action>_annotation; the event has that
\* action, and the annotation of the request body for delete and of the
\* response body otherwise; an OPTIONS response gets X-Client-ID appended to
\* its allowed headers and no event.
C21_AfterRequest ==
    after.ran =>
        /\ after.raised = "none"
        /\ Len(after.events) <= 1
        /\ Len(after.events) = 1 <=>
              /\ exchange.method # "OPTIONS"
              /\ exchange.response.status_code \in 200..299
              /\ Announces
        /\ Len(after.events) = 1 =>
              /\ HasForm(exchange.endpoint, after.events[1].action)
              /\ after.events[1].annotation =
                    IF after.events[1].action = S_delete
                    THEN exchange.data.value
                    ELSE exchange.response.data.value
        /\ exchange.method = "OPTIONS" =>
              /\ after.events = <<>>
              /\ AllowedAfter = Append(AllowedBefore, S_X_Client_ID)

====
